---- MODULE Spec2Model ----
(***************************************************************************)
(* sqlxy: a logical database over one master and several slave physical    *)
(* databases.  Writes go to conns[0]; reads go to conns[db.slave(n)], a    *)
(* round robin over 1..n-1 driven by the atomic counter db.count; scan     *)
(* fans an operation out to every index on goroutines and joins them.     *)
(***************************************************************************)
EXTENDS Integers, Sequences, FiniteSets, TLC

(***************************************************************************)
(* Bounds of the exploration.                                              *)
(***************************************************************************)
\* most physical databases named in the source string handed to Open and
\* most indices handed to a scan
MaxTargets == 3
\* most physical databases of a handle whose whole life, under concurrent
\* calls, is explored
MaxLifeTargets == 2
\* most physical databases of a handle whose read routing is explored
MaxReadTargets == 4
\* most physical databases of a handle whose statement groups are explored
MaxGroupTargets == 2
\* most reads explored on a handle whose statement groups are explored
MaxGroupReads == 1
\* most reads explored on a handle whose read routing is explored
MaxReads == 4
\* most reads made between Open and Close when the whole life is explored
MaxCalls == 2
\* most management calls (Ping, Close, Prepare, NamedPrepare, group Close,
\* pool setters, Driver) made on one handle
MaxOps == 2
\* most such calls made on a handle whose statement groups are explored
MaxGroupOps == 3
\* most reads made on a handle whose whole life is explored
MaxLifeReads == 1
\* most prepared statement groups requested from one handle
MaxGroups == 2
\* an aged handle starts with db.count = MaxUint64 - WrapGap
WrapGap == 2

(***************************************************************************)
(* db.count is a uint64.  Its value is kept exactly, as Limbs digits in    *)
(* base Base (most significant first), so that the wrap at 2^64 and the    *)
(* remainder modulo n-1 are those of the code.                             *)
(***************************************************************************)
Base == 65536
Limbs == 4

U64(k) == [l \in 1..Limbs |-> IF l = Limbs THEN k ELSE 0]
MaxUint64 == [l \in 1..Limbs |-> Base - 1]

RECURSIVE AddAt(_, _, _)
AddAt(c, l, carry) ==
    IF l = 0 THEN c
    ELSE LET s == c[l] + carry
         IN AddAt([c EXCEPT ![l] = s % Base], l - 1, s \div Base)

\* atomic.AddUint64(&c, d): the new value, modulo 2^64
AddUint64(c, d) == AddAt(c, Limbs, d)

RECURSIVE ModAt(_, _, _, _)
ModAt(c, l, r, m) ==
    IF l > Limbs THEN r
    ELSE ModAt(c, l + 1, (r * Base + c[l]) % m, m)

\* c % m for a uint64 c and a small m > 0
ModUint64(c, m) == ModAt(c, 1, 0, m)

RECURSIVE LessAt(_, _, _)
LessAt(a, b, l) ==
    IF l > Limbs THEN FALSE
    ELSE IF a[l] # b[l] THEN a[l] < b[l]
    ELSE LessAt(a, b, l + 1)

\* a < b as uint64 values
LessU64(a, b) == LessAt(a, b, 1)

(***************************************************************************)
(* strings.Split(source, ";") on a string given as a sequence of           *)
(* characters: always at least one part, possibly empty ones.              *)
(***************************************************************************)
RECURSIVE SplitFrom(_, _, _, _)
SplitFrom(s, sep, k, cur) ==
    IF k > Len(s) THEN <<cur>>
    ELSE IF s[k] = sep THEN <<cur>> \o SplitFrom(s, sep, k + 1, <<>>)
    ELSE SplitFrom(s, sep, k + 1, Append(cur, s[k]))

Split(s, sep) == SplitFrom(s, sep, 1, <<>>)

\* the source strings explored: "A", "A;B", "A;B;C", ... and the empty string
Letters == <<"A", "B", "C", "D", "E", "F", "G", "H">>
RECURSIVE SourceOf(_)
SourceOf(n) == IF n = 1 THEN <<Letters[1]>>
               ELSE SourceOf(n - 1) \o <<";", Letters[n]>>
SourcesUpTo(m) == {SourceOf(n) : n \in 1..m} \cup {<<>>}

(***************************************************************************)
(* The selector, DB.slave(n): the index it returns and the counter it      *)
(* leaves, from the counter it finds.                                      *)
(***************************************************************************)
\* a selector that uses the counter value before the increment
slavePreIncrement(n, c) ==
    IF n <= 1 THEN [idx |-> 0, count |-> c, val |-> <<>>]
    ELSE [idx |-> 1 + ModUint64(c, n - 1), count |-> AddUint64(c, 1),
          val |-> AddUint64(c, 1)]

\* a selector that cycles over all n targets, master included
slaveOverAll(n, c) ==
    IF n <= 1 THEN [idx |-> 0, count |-> c, val |-> <<>>]
    ELSE [idx |-> ModUint64(AddUint64(c, 1), n), count |-> AddUint64(c, 1),
          val |-> AddUint64(c, 1)]

\* a selector that increments the counter before it looks at n
slaveCountsAlways(n, c) ==
    LET v == AddUint64(c, 1)
    IN IF n <= 1 THEN [idx |-> 0, count |-> v, val |-> <<>>]
       ELSE [idx |-> 1 + ModUint64(v, n - 1), count |-> v, val |-> v]

\* if n <= 1 { return 0 }
\* return int(1 + (atomic.AddUint64(&db.count, 1) % uint64(n-1)))
slave(n, c) ==
    IF n <= 1 THEN [idx |-> 0, count |-> c, val |-> <<>>]
    ELSE LET v == AddUint64(c, 1)
         IN [idx |-> 1 + ModUint64(v, n - 1), count |-> v, val |-> v]

(***************************************************************************)
(* State.                                                                  *)
(***************************************************************************)
VARIABLES
    source,    \* the source string handed to Open
    conns,     \* db.conns: index -> physical database
    count,     \* db.count
    handle,    \* what Open's caller holds: "none", "open", "nil", "closed"
    groups,    \* the statement groups built by Prepare and NamedPrepare
    fan,       \* per calling goroutine: the frame of its fan-out call
    workers,   \* per calling goroutine: the goroutines of its scan
    errors,    \* per calling goroutine: the channel of its scan
    call,      \* per caller: the read in progress
    selLog,    \* history: the selector calls, in the order of their increments
    lastRead,  \* history: the last read issued and what it returned
    pool,      \* the last pool setting applied, per physical database
    ops,       \* management calls left to make in this run
    budget,    \* reads explored in this run
    ret        \* per calling goroutine: what its last call returned

vars == <<source, conns, count, handle, groups, fan, workers, errors, call,
          selLog, lastRead, pool, ops, budget, ret>>

\* the nil error; the error of fn(i) is written i
Nil == -1

\* a physical database: the DSN it was opened with, its state, whether a
\* write reached it, and (history) whether the connect that filled the slot
\* returned an error
NilConn == [dsn |-> <<>>, st |-> "nil", w |-> FALSE, failed |-> FALSE]
\* a statement: its state, whether a write reached it, the Close calls made
\* on it and the index of the physical database it was prepared on
NilStmt == [st |-> "nil", w |-> FALSE, closes |-> 0, on |-> Nil]

\* len(db.conns)
NumConns == Cardinality(DOMAIN conns)
\* len(s.stmts)
NumStmts(g) == Cardinality(DOMAIN groups[g].stmts)

\* the goroutines that call the methods of the handle and of its groups
\* concurrently, each one call at a time; Main is the one that calls Open
Callers == {"c1", "c2"}
Main == "c1"
IdleCall == [pc |-> "idle", via |-> "", g |-> 0, idx |-> 0, k |-> 0]
IdleFan == [op |-> "", g |-> 0, n |-> 0, pc |-> "idle", i |-> 0, err |-> Nil]
NoRet == [op |-> "", err |-> Nil, g |-> 0]
NoRead == [k |-> 0, err |-> Nil]

DBReadOps == {"Query", "QueryRow", "Select", "Get", "NamedQuery"}
StmtReadOps == {"Query", "QueryRow", "Select", "Get"}
DBWriteOps == {"Exec", "NamedExec", "Begin", "BeginTx"}
StmtWriteOps == {"Exec"}
PoolSetters == {"SetMaxIdleConns", "SetMaxOpenConns", "SetConnMaxLifetime"}

(***************************************************************************)
(* scan(n, fn): the frame it starts with, its spawn loop, its goroutines   *)
(* and its receive loop.  Every call of scan has its own channel and its   *)
(* own goroutines; m is the goroutine that called it.                      *)
(***************************************************************************)
\* errors := make(chan error, n); i = 0
ScanFrame(op, g, n) == [op |-> op, g |-> g, n |-> n, pc |-> "spawn", i |-> 0,
                        err |-> Nil]
\* per goroutine: its position, the result of fn(i), the calls of fn(i) made
\* and the rank of its send among the sends on the channel (0: not sent yet)
ScanWorkers(n) == [i \in 0..(n - 1) |->
                      [pc |-> "none", res |-> Nil, runs |-> 0, at |-> 0]]

\* a channel made one slot short: make(chan error, n-1)
CapShort(m) == fan[m].n - 1

\* errors := make(chan error, n): cap(errors)
Cap(m) == fan[m].n

\* for i = 0; i < n; i++ { go func(i int) { errors <- fn(i) }(i) }
ScanSpawn(m) ==
    /\ fan[m].pc = "spawn"
    /\ fan[m].i < fan[m].n
    /\ workers' = [workers EXCEPT ![m][fan[m].i].pc = "run"]
    /\ fan' = [fan EXCEPT ![m].i = @ + 1]
    /\ UNCHANGED <<budget, source, conns, count, handle, groups, errors, call,
                   selLog, lastRead, pool, ops, ret>>

\* the spawn loop ends; var err, innerErr error; i = 0
ScanSpawned(m) ==
    /\ fan[m].pc = "spawn"
    /\ fan[m].i >= fan[m].n
    /\ fan' = [fan EXCEPT ![m].pc = "recv", ![m].i = 0, ![m].err = Nil]
    /\ UNCHANGED <<budget, source, conns, count, handle, groups, workers,
                   errors, call, selLog, lastRead, pool, ops, ret>>

\* the closures handed to scan: what fn(i) does to the state, given whether
\* the underlying sqlx call succeeds
\* an Open that appends each connection as its connect completes
OpenFnAppend(i, ok) ==
    /\ LET free == {j \in DOMAIN conns : conns[j].st = "nil"}
           slot == CHOOSE j \in free : \A h \in free : j <= h
       IN conns' = [conns EXCEPT ![IF ok THEN slot ELSE i] =
                       IF ok THEN [dsn |-> Split(source, ";")[i + 1],
                                   st |-> "open", w |-> FALSE,
                                   failed |-> FALSE]
                       ELSE [conns[i] EXCEPT !.failed = TRUE]]
    /\ UNCHANGED groups

\* db.conns[i], err = sqlx.ConnectContext(ctx, driver, conns[i]): the slot
\* receives whatever pointer ConnectContext returns.  With an error that is
\* nil when the driver could not be opened, and the pool just made, not
\* closed, when the ping failed.
OpenFn(i, ok) ==
    /\ \E stored \in BOOLEAN :
          conns' = [conns EXCEPT ![i] =
                       IF ok \/ stored
                       THEN [dsn |-> Split(source, ";")[i + 1],
                             st |-> "open", w |-> FALSE, failed |-> ~ok]
                       ELSE [NilConn EXCEPT !.failed = TRUE]]
    /\ UNCHANGED groups

\* a Ping that closes the databases that do not answer
PingFnClosing(i, ok) ==
    /\ ok => conns[i].st = "open"
    /\ conns' = [conns EXCEPT ![i].st = IF ok THEN @ ELSE "closed"]
    /\ UNCHANGED groups

\* return db.conns[i].Ping(): fails on a database that has been closed
PingFn(i, ok) ==
    /\ ok => conns[i].st = "open"
    /\ UNCHANGED <<conns, groups>>

\* return db.conns[i].Close()
CloseFn(i, ok) ==
    /\ conns' = [conns EXCEPT ![i].st = "closed"]
    /\ UNCHANGED groups

\* a Prepare that prepares every statement on the master
PrepareFnOnMaster(g, i, ok) ==
    /\ ok => conns[i].st = "open"
    /\ groups' = [groups EXCEPT ![g].stmts[i] =
                     IF ok THEN [st |-> "open", w |-> FALSE, closes |-> 0,
                                 on |-> 0]
                     ELSE NilStmt]
    /\ UNCHANGED conns

\* stmts[i], err = db.conns[i].PreparexContext(ctx, query): fails on a
\* database that has been closed
PrepareFn(g, i, ok) ==
    /\ ok => conns[i].st = "open"
    /\ groups' = [groups EXCEPT ![g].stmts[i] =
                     IF ok THEN [st |-> "open", w |-> FALSE, closes |-> 0,
                                 on |-> i]
                     ELSE NilStmt]
    /\ UNCHANGED conns

\* a group Close in which every goroutine closes the first statement
StmtCloseFnFirst(g, i, ok) ==
    /\ groups' = [groups EXCEPT ![g].stmts[0].st = "closed",
                                ![g].stmts[0].closes = @ + 1]
    /\ UNCHANGED conns

\* return s.stmts[i].Close()
StmtCloseFn(g, i, ok) ==
    /\ groups' = [groups EXCEPT ![g].stmts[i].st = "closed",
                                ![g].stmts[i].closes = @ + 1]
    /\ UNCHANGED conns

CallFn(i, ok) == UNCHANGED <<conns, groups>>

\* the goroutine of index i evaluates fn(i)
WorkerRun(m, i) ==
    /\ fan[m].pc \in {"spawn", "recv"}
    /\ i \in DOMAIN workers[m]
    /\ workers[m][i].pc = "run"
    /\ \E ok \in BOOLEAN :
          /\ workers' = [workers EXCEPT ![m][i] =
                 [pc |-> "send", res |-> IF ok THEN Nil ELSE i,
                  runs |-> workers[m][i].runs + 1, at |-> 0]]
          /\ IF fan[m].op = "open" THEN OpenFn(i, ok)
             ELSE IF fan[m].op = "ping" THEN PingFn(i, ok)
             ELSE IF fan[m].op = "close" THEN CloseFn(i, ok)
             ELSE IF fan[m].op \in {"prepare", "namedprepare"}
                  THEN PrepareFn(fan[m].g, i, ok)
             ELSE IF fan[m].op = "stmtclose" THEN StmtCloseFn(fan[m].g, i, ok)
             ELSE CallFn(i, ok)
    /\ UNCHANGED <<budget, source, count, handle, fan, errors, call, selLog,
                   lastRead, pool, ops, ret>>

\* the sends made so far on the channel
Sent(m) == Cardinality({j \in DOMAIN workers[m] : workers[m][j].pc = "done"})

\* errors <- fn(i): the send blocks while the channel is full
WorkerSend(m, i) ==
    /\ fan[m].pc \in {"spawn", "recv"}
    /\ i \in DOMAIN workers[m]
    /\ workers[m][i].pc = "send"
    /\ Len(errors[m]) < Cap(m)
    /\ errors' = [errors EXCEPT ![m] = Append(@, workers[m][i].res)]
    /\ workers' = [workers EXCEPT ![m][i].pc = "done",
                                  ![m][i].at = Sent(m) + 1]
    /\ UNCHANGED <<budget, source, conns, count, handle, groups, fan, call,
                   selLog, lastRead, pool, ops, ret>>

\* a receive loop that keeps the first failure received
ScanKeepFirst(err, innerErr) == IF err # Nil THEN err ELSE innerErr

\* a receive loop in which a later success clears the failure
ScanKeepLatest(err, innerErr) == innerErr

\* if innerErr = <-errors; innerErr != nil { err = innerErr }
ScanKeep(err, innerErr) == IF innerErr # Nil THEN innerErr ELSE err

\* one turn of for i = 0; i < cap(errors); i++ { ... }
ScanRecv(m) ==
    /\ fan[m].pc = "recv"
    /\ fan[m].i < Cap(m)
    /\ Len(errors[m]) > 0
    /\ fan' = [fan EXCEPT ![m].i = @ + 1,
                          ![m].err = ScanKeep(@, Head(errors[m]))]
    /\ errors' = [errors EXCEPT ![m] = Tail(@)]
    /\ UNCHANGED <<budget, source, conns, count, handle, groups, workers, call,
                   selLog, lastRead, pool, ops, ret>>

\* a scan that returns as soon as one result has been received
ScanJoinedEarly(m) == fan[m].pc = "recv" /\ (fan[m].i >= Cap(m) \/ fan[m].i >= 1)

\* the receive loop is over: scan is about to return fan[m].err
ScanJoined(m) == fan[m].pc = "recv" /\ fan[m].i >= Cap(m)


(***************************************************************************)
(* Open and the fan-out methods of the handle and of a statement group.    *)
(* Each call builds its scan frame; its return step runs once the receive  *)
(* loop of scan is over.  No method takes a lock: calls of different       *)
(* goroutines interleave freely.                                           *)
(***************************************************************************)
Done(m, op) == fan[m].op = op /\ ScanJoined(m)

Return(m, op) ==
    /\ ret' = [ret EXCEPT ![m] = [op |-> op, err |-> fan[m].err,
                                  g |-> fan[m].g]]
    /\ fan' = [fan EXCEPT ![m] = IdleFan]
    /\ workers' = [workers EXCEPT ![m] = <<>>]
    /\ errors' = [errors EXCEPT ![m] = <<>>]

\* db := &DB{conns: make([]*sqlx.DB, len(conns))}
OpenConns(parts) == [i \in 0..(Len(parts) - 1) |-> NilConn]

Open(m) ==
    /\ handle = "none"
    /\ fan[m].pc = "idle"
    /\ LET parts == Split(source, ";")
       IN /\ conns' = OpenConns(parts)
          /\ count' = U64(0)
          /\ pool' = [i \in DOMAIN OpenConns(parts) |-> ""]
          /\ fan' = [fan EXCEPT ![m] =
                ScanFrame("open", 0, Cardinality(DOMAIN OpenConns(parts)))]
          /\ workers' = [workers EXCEPT ![m] =
                ScanWorkers(Cardinality(DOMAIN OpenConns(parts)))]
    /\ errors' = [errors EXCEPT ![m] = <<>>]
    /\ UNCHANGED <<budget, source, handle, groups, call, selLog, lastRead, ops,
                   ret>>

\* a return of Open that hands out the handle whatever scan reported
OpenResultAlways(err) == "open"

\* if err != nil { return nil, err }; return db, nil
OpenResult(err) == IF err # Nil THEN "nil" ELSE "open"

\* an Open that closes the connections it made when one connect failed
OpenReturnCleanup(m) ==
    /\ Done(m, "open")
    /\ handle' = OpenResult(fan[m].err)
    /\ conns' = IF fan[m].err = Nil THEN conns
                ELSE [i \in DOMAIN conns |->
                         IF conns[i].st = "open"
                         THEN [conns[i] EXCEPT !.st = "closed"]
                         ELSE conns[i]]
    /\ Return(m, "open")
    /\ UNCHANGED <<budget, source, count, groups, call, selLog, lastRead,
                   pool, ops>>

OpenReturn(m) ==
    /\ Done(m, "open")
    /\ handle' = OpenResult(fan[m].err)
    /\ Return(m, "open")
    /\ UNCHANGED <<budget, source, conns, count, groups, call, selLog, lastRead,
                   pool, ops>>

\* a caller has the handle: Open returned it.  The methods check nothing
\* else: they run during and after Close as well.
Usable == handle \in {"open", "closed"}

\* goroutine m can start a management call: it is not inside another call
\* of its own and the run has calls left
Manageable(m) ==
    /\ Usable
    /\ fan[m].pc = "idle"
    /\ call[m].pc = "idle"
    /\ ops > 0

\* the frame and goroutines of a fan-out call of goroutine m
StartScan(m, op, g, n) ==
    /\ fan' = [fan EXCEPT ![m] = ScanFrame(op, g, n)]
    /\ workers' = [workers EXCEPT ![m] = ScanWorkers(n)]
    /\ errors' = [errors EXCEPT ![m] = <<>>]
    /\ ops' = ops - 1

Ping(m) ==
    /\ Manageable(m)
    /\ StartScan(m, "ping", 0, NumConns)
    /\ UNCHANGED <<budget, source, conns, count, handle, groups, call, selLog,
                   lastRead, pool, ret>>

PingReturn(m) ==
    /\ Done(m, "ping")
    /\ Return(m, "ping")
    /\ UNCHANGED <<budget, source, conns, count, handle, groups, call, selLog,
                   lastRead, pool, ops>>

Close(m) ==
    /\ Manageable(m)
    /\ StartScan(m, "close", 0, NumConns)
    /\ UNCHANGED <<budget, source, conns, count, handle, groups, call, selLog,
                   lastRead, pool, ret>>

CloseReturn(m) ==
    /\ Done(m, "close")
    /\ handle' = "closed"
    /\ Return(m, "close")
    /\ UNCHANGED <<budget, source, conns, count, groups, call, selLog, lastRead,
                   pool, ops>>

\* stmts := make([]*sqlx.Stmt, len(db.conns))
\* closeCalls is history: the Close calls made on the group
NewGroup(kind, n) == [kind |-> kind, held |-> FALSE, closeCalls |-> 0,
                      stmts |-> [i \in 0..(n - 1) |-> NilStmt]]

\* Prepare (kind "stmt") and NamedPrepare (kind "named")
Prepare(m, kind) ==
    /\ Manageable(m)
    /\ Len(groups) < MaxGroups
    /\ groups' = Append(groups, NewGroup(kind, NumConns))
    /\ StartScan(m, IF kind = "stmt" THEN "prepare" ELSE "namedprepare",
                 Len(groups) + 1, NumConns)
    /\ UNCHANGED <<budget, source, conns, count, handle, call, selLog, lastRead,
                   pool, ret>>

\* a Prepare that hands out the group whatever scan reported
PrepareResultAlways(err) == TRUE

\* if err != nil { return nil, err }; return &stmt{db: db, stmts: stmts}, nil
\* whether the caller receives the group
PrepareResult(err) == err = Nil

PrepareReturn(m) ==
    /\ \/ Done(m, "prepare")
       \/ Done(m, "namedprepare")
    /\ groups' = [groups EXCEPT ![fan[m].g].held = PrepareResult(fan[m].err)]
    /\ Return(m, fan[m].op)
    /\ UNCHANGED <<budget, source, conns, count, handle, call, selLog, lastRead,
                   pool, ops>>

\* stmt.Close and namedStmt.Close
GroupClose(m, g) ==
    /\ g \in DOMAIN groups
    /\ groups[g].held
    /\ Manageable(m)
    /\ StartScan(m, "stmtclose", g, NumStmts(g))
    /\ groups' = [groups EXCEPT ![g].closeCalls = @ + 1]
    /\ UNCHANGED <<budget, source, conns, count, handle, call, selLog,
                   lastRead, pool, ret>>

GroupCloseReturn(m) ==
    /\ Done(m, "stmtclose")
    /\ Return(m, "stmtclose")
    /\ UNCHANGED <<budget, source, conns, count, handle, groups, call, selLog,
                   lastRead, pool, ops>>

\* SetMaxIdleConns, SetMaxOpenConns, SetConnMaxLifetime: the call enters
\* for i := range db.conns
PoolSet(m, setter) ==
    /\ Manageable(m)
    /\ setter \in PoolSetters
    /\ fan' = [fan EXCEPT ![m] = [op |-> setter, g |-> 0, n |-> NumConns,
                                  pc |-> "loop", i |-> 0, err |-> Nil]]
    /\ ops' = ops - 1
    /\ UNCHANGED <<budget, source, conns, count, handle, groups, workers,
                   errors, call, selLog, lastRead, pool, ret>>

\* one turn of the loop: db.conns[i].SetMaxIdleConns(n), and the like
PoolSetStep(m) ==
    /\ fan[m].pc = "loop"
    /\ fan[m].i < fan[m].n
    /\ pool' = [pool EXCEPT ![fan[m].i] = fan[m].op]
    /\ fan' = [fan EXCEPT ![m].i = @ + 1]
    /\ UNCHANGED <<budget, source, conns, count, handle, groups, workers,
                   errors, call, selLog, lastRead, ops, ret>>

\* the loop is over: the setter returns
PoolSetReturn(m) ==
    /\ fan[m].pc = "loop"
    /\ fan[m].i >= fan[m].n
    /\ Return(m, fan[m].op)
    /\ UNCHANGED <<budget, source, conns, count, handle, groups, call, selLog,
                   lastRead, pool, ops>>


(***************************************************************************)
(* Reads and writes.  A read is two steps: the selector call (one atomic   *)
(* add on db.count) and the query on the database or statement selected.   *)
(***************************************************************************)
\* a Master that returns the last physical database
MasterLast == NumConns - 1

\* DB.Master: db.conns[0]
Master == 0

\* stmt.Exec and namedStmt.Exec: s.stmts[0]
StmtMaster(g) == 0

\* the held groups of one kind
Held(kind) == {g \in DOMAIN groups : groups[g].held /\ groups[g].kind = kind}

\* the ways to reach the handle: directly, or through a held group
Routes == {[via |-> "db", g |-> 0]}
          \cup {[via |-> "stmt", g |-> g] : g \in Held("stmt")}
          \cup {[via |-> "named", g |-> g] : g \in Held("named")}

\* stmt.indexForSalve and namedStmt.indexForSalve: s.db.slave(len(s.db.conns))
\* works on the counter of the handle
GroupCounter(g) == count

\* db.Slave() / s.indexForSalve(): the selector call of a read
Select(t, op, r) ==
    /\ Usable
    /\ fan[t].pc = "idle"
    /\ call[t].pc = "idle"
    /\ Len(selLog) < budget
    /\ r \in Routes
    /\ op \in (IF r.via = "db" THEN DBReadOps ELSE StmtReadOps)
    /\ LET sel == slave(NumConns, IF r.via = "db" THEN count
                                  ELSE GroupCounter(r.g))
       IN /\ count' = sel.count
          /\ selLog' = Append(selLog, [via |-> r.via, g |-> r.g,
                                       n |-> NumConns, idx |-> sel.idx,
                                       val |-> sel.val, sent |-> <<>>])
          /\ call' = [call EXCEPT ![t] =
                         [pc |-> "selected", via |-> r.via, g |-> r.g,
                          idx |-> sel.idx, k |-> Len(selLog) + 1]]
    /\ UNCHANGED <<budget, source, conns, handle, groups, fan, workers, errors,
                   lastRead, pool, ops, ret>>

\* db.conns[idx] / s.stmts[idx]: the query goes to the index selected
ReadTarget(idx) == idx

\* a query can succeed only on a database, and on a statement, that has not
\* been closed
Serving(via, g, idx) ==
    /\ conns[idx].st = "open"
    /\ via # "db" => groups[g].stmts[idx].st = "open"

\* the query itself, on the database or statement selected; it may fail
Issue(t) ==
    /\ call[t].pc = "selected"
    /\ \E ok \in BOOLEAN :
          /\ ok => Serving(call[t].via, call[t].g, ReadTarget(call[t].idx))
          /\ lastRead' = [k |-> call[t].k,
                          err |-> IF ok THEN Nil
                                  ELSE ReadTarget(call[t].idx)]
    /\ selLog' = [selLog EXCEPT ![call[t].k].sent =
                      Append(@, ReadTarget(call[t].idx))]
    /\ call' = [call EXCEPT ![t] = IdleCall]
    /\ UNCHANGED <<budget, source, conns, count, handle, groups, fan, workers,
                   errors, pool, ops, ret>>

\* Exec, NamedExec, Begin, BeginTx on the handle; Exec on a group
Write(t, op, r) ==
    /\ Usable
    /\ fan[t].pc = "idle"
    /\ call[t].pc = "idle"
    /\ r \in Routes
    /\ op \in (IF r.via = "db" THEN DBWriteOps ELSE StmtWriteOps)
    /\ IF r.via = "db"
       THEN /\ conns' = [conns EXCEPT ![Master].w = TRUE]
            /\ UNCHANGED groups
       ELSE /\ groups' = [groups EXCEPT ![r.g].stmts[StmtMaster(r.g)].w = TRUE]
            /\ UNCHANGED conns
    /\ UNCHANGED <<budget, source, count, handle, fan, workers, errors, call,
                   selLog, lastRead, pool, ops, ret>>

\* a Driver that asks a slave: db.Slave().Driver()
DriverOnSlave(m) ==
    /\ Manageable(m)
    /\ count' = slave(NumConns, count).count
    /\ ret' = [ret EXCEPT ![m] = [op |-> "Driver", err |-> Nil, g |-> 0]]
    /\ ops' = ops - 1
    /\ UNCHANGED <<budget, source, conns, handle, groups, fan, workers,
                   errors, call, selLog, lastRead, pool>>

\* DB.Driver: db.Master().Driver()
Driver(m) ==
    /\ Manageable(m)
    /\ ret' = [ret EXCEPT ![m] = [op |-> "Driver", err |-> Nil, g |-> 0]]
    /\ ops' = ops - 1
    /\ UNCHANGED <<budget, source, conns, count, handle, groups, fan, workers,
                   errors, call, selLog, lastRead, pool>>

(***************************************************************************)
(* The whole life of a handle, from Open on, under concurrent calls.       *)
(***************************************************************************)
Quiet ==
    /\ fan = [m \in Callers |-> IdleFan]
    /\ workers = [m \in Callers |-> <<>>]
    /\ errors = [m \in Callers |-> <<>>]
    /\ call = [t \in Callers |-> IdleCall]
    /\ selLog = <<>>
    /\ lastRead = NoRead
    /\ ret = [m \in Callers |-> NoRet]

\* before Open is called, with a source of at most targets targets
Fresh(targets) ==
    /\ source \in SourcesUpTo(targets)
    /\ conns = <<>>
    /\ pool = <<>>
    /\ count = U64(0)
    /\ handle = "none"
    /\ groups = <<>>
    /\ budget = MaxLifeReads
    /\ ops = MaxOps
    /\ Quiet

Init == Fresh(MaxLifeTargets)

Next ==
    \/ Open(Main)
    \/ OpenReturn(Main)
    \/ \E m \in Callers : ScanSpawn(m)
    \/ \E m \in Callers : ScanSpawned(m)
    \/ \E m \in Callers : \E i \in DOMAIN workers[m] : WorkerRun(m, i)
    \/ \E m \in Callers : \E i \in DOMAIN workers[m] : WorkerSend(m, i)
    \/ \E m \in Callers : ScanRecv(m)
    \/ \E m \in Callers : Ping(m)
    \/ \E m \in Callers : PingReturn(m)
    \/ \E m \in Callers : Close(m)
    \/ \E m \in Callers : CloseReturn(m)
    \/ \E m \in Callers, kind \in {"stmt", "named"} : Prepare(m, kind)
    \/ \E m \in Callers : PrepareReturn(m)
    \/ \E m \in Callers, g \in 1..MaxGroups : GroupClose(m, g)
    \/ \E m \in Callers : GroupCloseReturn(m)
    \/ \E m \in Callers, setter \in PoolSetters : PoolSet(m, setter)
    \/ \E m \in Callers : PoolSetStep(m)
    \/ \E m \in Callers : PoolSetReturn(m)
    \/ \E t \in Callers, op \in DBReadOps \cup StmtReadOps, r \in Routes :
          Select(t, op, r)
    \/ \E t \in Callers : Issue(t)
    \/ \E t \in Callers, op \in DBWriteOps \cup StmtWriteOps, r \in Routes :
          Write(t, op, r)
    \/ \E m \in Callers : Driver(m)

Spec == Init /\ [][Next]_vars

(***************************************************************************)
(* Open on its own: from the call to its return.                           *)
(***************************************************************************)
InitOpen == Fresh(MaxTargets)

NextOpen ==
    \/ Open(Main)
    \/ OpenReturn(Main)
    \/ \E m \in Callers : ScanSpawn(m)
    \/ \E m \in Callers : ScanSpawned(m)
    \/ \E m \in Callers : \E i \in DOMAIN workers[m] : WorkerRun(m, i)
    \/ \E m \in Callers : \E i \in DOMAIN workers[m] : WorkerSend(m, i)
    \/ \E m \in Callers : ScanRecv(m)

SpecOpen == InitOpen /\ [][NextOpen]_vars

(***************************************************************************)
(* Read routing on an open handle: a handle that Open has returned, with   *)
(* one group of each kind prepared on it, either new (db.count = 0) or     *)
(* aged (db.count close to MaxUint64), under concurrent reads.             *)
(***************************************************************************)
OpenedConns(parts) == [i \in 0..(Len(parts) - 1) |->
                          [dsn |-> parts[i + 1], st |-> "open", w |-> FALSE,
                           failed |-> FALSE]]
PreparedGroup(kind, n) == [kind |-> kind, held |-> TRUE, closeCalls |-> 0,
                           stmts |-> [i \in 0..(n - 1) |->
                                         [st |-> "open", w |-> FALSE,
                                          closes |-> 0, on |-> i]]]

\* db.count of an aged handle
AgedCount == [MaxUint64 EXCEPT ![Limbs] = Base - 1 - WrapGap]

\* the handle, with reads reads to make
Opened(reads) ==
    /\ source \in SourcesUpTo(MaxReadTargets)
    /\ conns = OpenedConns(Split(source, ";"))
    /\ pool = [i \in DOMAIN conns |-> ""]
    /\ count \in {U64(0), AgedCount}
    /\ handle = "open"
    /\ groups = <<PreparedGroup("stmt", NumConns),
                  PreparedGroup("named", NumConns)>>
    /\ budget = reads
    /\ ops = 0
    /\ Quiet

InitRead == Opened(MaxReads)

NextRead ==
    \/ \E t \in Callers, op \in DBReadOps \cup StmtReadOps, r \in Routes :
          Select(t, op, r)
    \/ \E t \in Callers : Issue(t)

SpecRead == InitRead /\ [][NextRead]_vars

(***************************************************************************)
(* The same handle under concurrent reads and writes.                      *)
(***************************************************************************)
InitReadWrite == Opened(MaxCalls)

NextReadWrite ==
    \/ \E t \in Callers, op \in DBReadOps \cup StmtReadOps, r \in Routes :
          Select(t, op, r)
    \/ \E t \in Callers : Issue(t)
    \/ \E t \in Callers, op \in DBWriteOps \cup StmtWriteOps, r \in Routes :
          Write(t, op, r)

SpecReadWrite == InitReadWrite /\ [][NextReadWrite]_vars

(***************************************************************************)
(* Statement groups on an open handle: concurrent Prepare, NamedPrepare    *)
(* and Close of the groups they return, and reads through those groups.    *)
(***************************************************************************)
InitGroup ==
    /\ source \in SourcesUpTo(MaxGroupTargets)
    /\ conns = OpenedConns(Split(source, ";"))
    /\ pool = [i \in DOMAIN conns |-> ""]
    /\ count = U64(0)
    /\ handle = "open"
    /\ groups = <<>>
    /\ budget = MaxGroupReads
    /\ ops = MaxGroupOps
    /\ Quiet

NextGroup ==
    \/ \E m \in Callers, kind \in {"stmt", "named"} : Prepare(m, kind)
    \/ \E m \in Callers : PrepareReturn(m)
    \/ \E m \in Callers, g \in 1..MaxGroups : GroupClose(m, g)
    \/ \E m \in Callers : GroupCloseReturn(m)
    \/ \E m \in Callers : ScanSpawn(m)
    \/ \E m \in Callers : ScanSpawned(m)
    \/ \E m \in Callers : \E i \in DOMAIN workers[m] : WorkerRun(m, i)
    \/ \E m \in Callers : \E i \in DOMAIN workers[m] : WorkerSend(m, i)
    \/ \E m \in Callers : ScanRecv(m)
    \/ \E t \in Callers, op \in StmtReadOps, r \in Routes :
          r.via # "db" /\ Select(t, op, r)
    \/ \E t \in Callers : Issue(t)

SpecGroup == InitGroup /\ [][NextGroup]_vars

(***************************************************************************)
(* scan on its own: scan(n, fn) for every n from 0 and every outcome of    *)
(* fn, as a direct call of goroutine Main.                                 *)
(***************************************************************************)
InitScan ==
    /\ source = <<>>
    /\ conns = <<>>
    /\ pool = <<>>
    /\ count = U64(0)
    /\ handle = "none"
    /\ groups = <<>>
    /\ budget = 0
    /\ \E n \in 0..MaxTargets :
          /\ fan = [m \in Callers |->
                       IF m = Main THEN ScanFrame("call", 0, n) ELSE IdleFan]
          /\ workers = [m \in Callers |->
                           IF m = Main THEN ScanWorkers(n) ELSE <<>>]
    /\ errors = [m \in Callers |-> <<>>]
    /\ call = [t \in Callers |-> IdleCall]
    /\ selLog = <<>>
    /\ lastRead = NoRead
    /\ ops = 0
    /\ ret = [m \in Callers |-> NoRet]

\* return err
ScanReturn(m) ==
    /\ Done(m, "call")
    /\ ret' = [ret EXCEPT ![m] = [op |-> "call", err |-> fan[m].err, g |-> 0]]
    /\ fan' = [fan EXCEPT ![m].pc = "returned"]
    /\ UNCHANGED <<budget, source, conns, count, handle, groups, workers,
                   errors, call, selLog, lastRead, pool, ops>>

NextScan ==
    \/ \E m \in Callers : ScanSpawn(m)
    \/ \E m \in Callers : ScanSpawned(m)
    \/ \E m \in Callers : \E i \in DOMAIN workers[m] : WorkerRun(m, i)
    \/ \E m \in Callers : \E i \in DOMAIN workers[m] : WorkerSend(m, i)
    \/ \E m \in Callers : ScanRecv(m)
    \/ \E m \in Callers : ScanReturn(m)

SpecScan == InitScan /\ [][NextScan]_vars

\* the Go scheduler runs every goroutine that can take a step: the
\* goroutines of the scan and the caller's spawn and receive loops
FairSpecScan ==
    /\ SpecScan
    /\ \A m \in Callers :
          /\ WF_vars(ScanSpawn(m))
          /\ WF_vars(ScanSpawned(m))
          /\ \A i \in 0..(MaxTargets - 1) : WF_vars(WorkerRun(m, i))
          /\ \A i \in 0..(MaxTargets - 1) : WF_vars(WorkerSend(m, i))
          /\ WF_vars(ScanRecv(m))
          /\ WF_vars(ScanReturn(m))


(***************************************************************************)
(* Properties.                                                             *)
(***************************************************************************)
\* the log is that of a handle whose counter started at 0: its first
\* selector call obtained the counter value 1
FreshLog == selLog # <<>> /\ selLog[1].val = U64(1)

\* the indices of the selector calls k .. k + len - 1, as a set
Window(k, len) == {selLog[j].idx : j \in k..(k + len - 1)}

\* C1 as stated: on a fresh handle with N >= 2 targets the k-th selector call
\* returns 1 + ((k-1) mod (N-1)), so the first call returns index 1.
C1_FirstCallReturnsOne ==
    \A k \in DOMAIN selLog :
        (FreshLog /\ selLog[k].n >= 2)
            => selLog[k].idx = 1 + ((k - 1) % (selLog[k].n - 1))

\* C1 amended: on a fresh handle with N >= 2 targets the k-th selector call
\* returns 1 + (k mod (N-1)): the counter is incremented before it is used,
\* so N=3 yields 2,1,2,1,... and N=4 yields 2,3,1,2,3,1,...
C1_KthCallReturnsOnePlusKModSlaves ==
    \A k \in DOMAIN selLog :
        (FreshLog /\ selLog[k].n >= 2)
            => selLog[k].idx = 1 + (k % (selLog[k].n - 1))

\* three calls on a fresh handle with four targets returned 2, 3, 1
C1_Witness ==
    /\ FreshLog
    /\ Len(selLog) >= 3
    /\ selLog[1].n = 4
    /\ <<selLog[1].idx, selLog[2].idx, selLog[3].idx>> = <<2, 3, 1>>

\* C2: with N >= 2 targets the selector results, in counter order, cycle with
\* period N-1: every window of N-1 consecutive results holds each index of
\* 1..N-1, and result k+N-1 equals result k.
C2_RoundRobinCycle ==
    \A k \in DOMAIN selLog :
        LET n == selLog[k].n
        IN n >= 2 =>
            /\ (k + n - 2) \in DOMAIN selLog => Window(k, n - 1) = 1..(n - 1)
            /\ (k + n - 1) \in DOMAIN selLog
                   => selLog[k + n - 1].idx = selLog[k].idx

\* C3: the selector returns 0 whenever n <= 1 and an index of 1..n-1
\* whenever n >= 2, at every counter value, also after the counter has
\* wrapped to 0.
C3_SelectorIndexValid ==
    /\ \A k \in DOMAIN selLog :
          IF selLog[k].n <= 1 THEN selLog[k].idx = 0
          ELSE selLog[k].idx \in 1..(selLog[k].n - 1)
    /\ \A n \in 0..1 : slave(n, count).idx = 0
    /\ \A n \in 2..MaxReadTargets : slave(n, count).idx \in 1..(n - 1)

\* a selector call on three or more targets obtained the counter value 0:
\* the counter has wrapped
C3_Witness ==
    \E k \in DOMAIN selLog :
        /\ selLog[k].n >= 3
        /\ selLog[k].val = U64(0)
        /\ selLog[k].idx = 1

\* C4: no physical database other than conns[0], and no statement of a group
\* other than stmts[0], ever receives a write, whatever reads and writes
\* came before and whatever the counter holds.
C4_WritesOnlyToMaster ==
    /\ \A i \in DOMAIN conns : conns[i].w => i = 0
    /\ \A g \in DOMAIN groups :
          \A i \in DOMAIN groups[g].stmts : groups[g].stmts[i].w => i = 0

\* on a handle with slaves, after reads that moved the counter, the master
\* and the first statement of both groups have received writes
C4_Witness ==
    /\ NumConns >= 3
    /\ Len(selLog) >= 2
    /\ conns[0].w
    /\ \A g \in DOMAIN groups : groups[g].stmts[0].w
    /\ Len(groups) = 2

\* C5: handle reads and group reads draw from one counter: each read obtains
\* the value after the one before it, every N-1 consecutive reads that
\* include a group read hit each slave once, and a read is issued at the
\* index selected.
C5_SharedCounterRoundRobin ==
    \A k \in DOMAIN selLog :
        LET n == selLog[k].n
        IN n >= 2 =>
            /\ k > 1 => selLog[k].val = AddUint64(selLog[k - 1].val, 1)
            /\ selLog[k].sent \in {<<>>, <<selLog[k].idx>>}
            /\ ( /\ (k + n - 2) \in DOMAIN selLog
                 /\ \E j \in k..(k + n - 2) : selLog[j].via # "db" )
                   => Window(k, n - 1) = 1..(n - 1)

\* C6: the selector calls of concurrent callers obtain consecutive counter
\* values, each greater than the one before: no value is handed out twice
\* and the values order the calls.
C6_DistinctIncreasingValues ==
    /\ \A k \in DOMAIN selLog :
          (selLog[k].n >= 2 /\ k > 1)
              => /\ selLog[k].val = AddUint64(selLog[k - 1].val, 1)
                 /\ LessU64(selLog[k - 1].val, selLog[k].val)
    /\ \A j, k \in DOMAIN selLog :
          (selLog[k].n >= 2 /\ j # k) => selLog[j].val # selLog[k].val
    /\ (selLog # <<>> /\ selLog[1].n >= 2)
          => count = selLog[Len(selLog)].val

\* C7: scan returns nil exactly when every fn(i) returned nil; otherwise it
\* returns the error of an index that failed; scan(0, fn) returns nil and
\* runs nothing.
C7_ScanResult ==
    \A m \in Callers :
        fan[m].pc = "returned" =>
            /\ ret[m].err = Nil
                  <=> \A i \in DOMAIN workers[m] : workers[m][i].res = Nil
            /\ ret[m].err # Nil
                  => /\ ret[m].err \in DOMAIN workers[m]
                     /\ workers[m][ret[m].err].res = ret[m].err
            /\ fan[m].n = 0
                  => ret[m].err = Nil /\ \A i \in DOMAIN workers[m] : FALSE

\* scan returned an error although some index succeeded
C7_Witness ==
    /\ fan[Main].pc = "returned"
    /\ fan[Main].n >= 2
    /\ ret[Main].err # Nil
    /\ \E i \in DOMAIN workers[Main] : workers[Main][i].res = Nil

\* C8: fn runs at most once per index, and when scan returns it has run and
\* delivered its result for every index of 0..n-1, whatever failed.
C8_ScanRunsAllBeforeReturn ==
    \A m \in Callers :
        /\ \A i \in DOMAIN workers[m] : workers[m][i].runs <= 1
        /\ fan[m].pc = "returned" =>
              \A i \in 0..(fan[m].n - 1) :
                  /\ i \in DOMAIN workers[m]
                  /\ workers[m][i].runs = 1
                  /\ workers[m][i].pc = "done"

\* scan returned after index 0 failed and a later index succeeded
C8_Witness ==
    /\ fan[Main].pc = "returned"
    /\ fan[Main].n >= 2
    /\ workers[Main][0].res # Nil
    /\ workers[Main][fan[Main].n - 1].res = Nil
    /\ workers[Main][fan[Main].n - 1].runs = 1

\* C9: a connection stands at the index of the DSN it was opened with, at
\* every moment of Open, and the handle Open returns has one open connection
\* per DSN of the source, in the order of the source.
C9_OpenKeepsSourceOrder ==
    LET parts == Split(source, ";")
    IN /\ \A i \in DOMAIN conns :
             conns[i].st # "nil" => conns[i].dsn = parts[i + 1]
       /\ handle = "open" =>
             /\ NumConns = Len(parts)
             /\ DOMAIN conns = 0..(Len(parts) - 1)
             /\ \A i \in DOMAIN conns :
                   conns[i].st = "open" /\ conns[i].dsn = parts[i + 1]

\* Open returned a handle on "A;B;C"
C9_Witness ==
    /\ handle = "open"
    /\ ret[Main].op = "open"
    /\ NumConns = 3
    /\ conns[1].dsn = <<"B">>
    /\ conns[2].dsn = <<"C">>

\* C10: Open returns the handle exactly when every connect succeeded, and
\* then every connection is open; when one failed it returns nil and the
\* error of a connect that failed.
C10_OpenAllOrNothing ==
    \A m \in Callers :
        ret[m].op = "open" =>
            /\ handle \in {"open", "nil"}
            /\ handle = "open" <=> \A i \in DOMAIN conns : ~conns[i].failed
            /\ handle = "open"
                  => /\ ret[m].err = Nil
                     /\ \A i \in DOMAIN conns : conns[i].st = "open"
            /\ handle = "nil"
                  => /\ ret[m].err \in DOMAIN conns
                     /\ conns[ret[m].err].failed

\* Open returned nil although one of several connects succeeded
C10_Witness ==
    /\ ret[Main].op = "open"
    /\ handle = "nil"
    /\ NumConns >= 2
    /\ \E i \in DOMAIN conns : conns[i].st = "open" /\ ~conns[i].failed

\* the indices of the scan of goroutine m whose operation failed
Failed(m) == {i \in DOMAIN workers[m] : workers[m][i].res # Nil}

\* a Close of group g is fanning out
Closing(g) ==
    \E m \in Callers :
        fan[m].op = "stmtclose" /\ fan[m].g = g /\ ~ScanJoined(m)

\* C11: Close of a statement group calls Close exactly once on the statement
\* of every target: no statement has more Close calls than its group, each
\* has exactly as many once the fan-out of every Close of the group is over,
\* and is closed; a failing Close of one statement does not prevent the
\* others, and the Close of the group returns a non-nil error exactly when
\* some statement's Close failed.
C11_GroupCloseClosesEveryStatement ==
    /\ \A g \in DOMAIN groups : \A i \in DOMAIN groups[g].stmts :
           LET s == groups[g].stmts[i]
           IN /\ s.closes <= groups[g].closeCalls
              /\ ~Closing(g)
                     => /\ s.closes = groups[g].closeCalls
                        /\ groups[g].closeCalls > 0 => s.st = "closed"
    /\ \A m \in Callers :
           Done(m, "stmtclose")
              => /\ \A i \in DOMAIN workers[m] : workers[m][i].runs = 1
                 /\ DOMAIN workers[m] = DOMAIN groups[fan[m].g].stmts
                 /\ \A i \in DOMAIN workers[m] :
                        /\ groups[fan[m].g].stmts[i].closes >= 1
                        /\ groups[fan[m].g].stmts[i].st = "closed"
                 /\ (fan[m].err # Nil) <=> (Failed(m) # {})

\* a group of two statements or more has been closed, the Close of exactly
\* one statement failed, and every statement is closed
C11_Witness ==
    \E m \in Callers :
        /\ Done(m, "stmtclose")
        /\ fan[m].n >= 2
        /\ Cardinality(Failed(m)) = 1
        /\ fan[m].err # Nil
        /\ \A i \in DOMAIN groups[fan[m].g].stmts :
               /\ groups[fan[m].g].stmts[i].st = "closed"
               /\ groups[fan[m].g].stmts[i].closes = 1

\* Prepare or NamedPrepare is running on group g
Preparing(g) ==
    \E m \in Callers :
        fan[m].op \in {"prepare", "namedprepare"} /\ fan[m].g = g

\* C12: when Prepare or NamedPrepare fails on at least one target it returns
\* an error and no group, and it closes none of the statements prepared on
\* the other targets: they stay open, with no Close call made on them, in a
\* group that no caller holds.
C12_FailedPrepareLeaksStatements ==
    /\ \A m \in Callers :
           (Done(m, "prepare") \/ Done(m, "namedprepare"))
              => /\ (fan[m].err # Nil) <=> (Failed(m) # {})
                 /\ \A i \in DOMAIN workers[m] :
                        (workers[m][i].res = Nil)
                            <=> (groups[fan[m].g].stmts[i].st = "open")
    /\ \A g \in DOMAIN groups :
           ~Preparing(g)
              => /\ groups[g].held
                        <=> (\A i \in DOMAIN groups[g].stmts :
                                groups[g].stmts[i].st # "nil")
                 /\ ~groups[g].held
                        => \A i \in DOMAIN groups[g].stmts :
                              /\ groups[g].stmts[i].st \in {"nil", "open"}
                              /\ groups[g].stmts[i].closes = 0
    /\ \A m \in Callers :
           ret[m].op \in {"prepare", "namedprepare"}
              => ((ret[m].err # Nil) <=> ~groups[ret[m].g].held)

\* Prepare has returned an error: the caller holds no group, one statement
\* was prepared and is still open, another was not prepared
C12_Witness ==
    \E m \in Callers :
        /\ fan[m] = IdleFan
        /\ ret[m].op \in {"prepare", "namedprepare"}
        /\ ret[m].err # Nil
        /\ ~groups[ret[m].g].held
        /\ \E i, j \in DOMAIN groups[ret[m].g].stmts :
               /\ groups[ret[m].g].stmts[i].st = "open"
               /\ groups[ret[m].g].stmts[i].closes = 0
               /\ groups[ret[m].g].stmts[j].st = "nil"

\* the failures that the receive loop of goroutine m has received so far
ReceivedFailures(m) == {i \in Failed(m) : workers[m][i].at \in 1..fan[m].i}

\* C13: the error scan holds, and returns, is that of the failing operation
\* whose result was received last, in the order the results arrived on the
\* channel: every earlier failure is discarded, a success received after a
\* failure does not clear it, and scan returns nil only when no operation
\* failed.
C13_LastReceivedFailureWins ==
    \A m \in Callers :
        /\ fan[m].pc \in {"recv", "returned"}
               => IF ReceivedFailures(m) = {} THEN fan[m].err = Nil
                  ELSE /\ fan[m].err \in ReceivedFailures(m)
                       /\ \A j \in ReceivedFailures(m) :
                              workers[m][j].at <= workers[m][fan[m].err].at
        /\ fan[m].pc = "returned"
               => /\ ret[m].err = fan[m].err
                  /\ ReceivedFailures(m) = Failed(m)

\* scan has returned; two operations failed and one succeeded; the failure
\* returned arrived after the other failure, before the success, and is not
\* that of the greater index
C13_Witness ==
    /\ fan[Main].pc = "returned"
    /\ \E a, b \in Failed(Main) : \E c \in DOMAIN workers[Main] \ Failed(Main) :
           /\ workers[Main][a].at < workers[Main][b].at
           /\ workers[Main][b].at < workers[Main][c].at
           /\ b < a
           /\ ret[Main].err = b

\* C14 as stated: every selector call raises db.count by one, for every
\* number of targets N >= 1: after k selector calls the counter of the handle
\* is k above the value it started from (modulo 2^64).
C14_EverySelectorCallIncrements ==
    handle = "open"
        => count \in {AddUint64(U64(0), Len(selLog)),
                      AddUint64(AgedCount, Len(selLog))}

\* C14: on a handle with N >= 2 targets every selector call raises db.count
\* by one modulo 2^64 and uses the value it obtained: the first call obtains
\* the starting value plus one, each later call the value of the call before
\* plus one, and db.count is the value of the last call.  On a handle with
\* one target the selector returns 0 and leaves db.count as it was.
C14_SelectorIncrementsWhenSlaves ==
    handle = "open"
        => IF NumConns >= 2
           THEN /\ selLog = <<>> => count \in {U64(0), AgedCount}
                /\ selLog # <<>>
                       => /\ selLog[1].val \in {AddUint64(U64(0), 1),
                                                AddUint64(AgedCount, 1)}
                          /\ count = selLog[Len(selLog)].val
                /\ \A k \in DOMAIN selLog :
                       k > 1 => selLog[k].val = AddUint64(selLog[k - 1].val, 1)
           ELSE /\ count \in {U64(0), AgedCount}
                /\ \A k \in DOMAIN selLog :
                       selLog[k].val = <<>> /\ selLog[k].idx = 0

\* four reads on an aged handle with slaves: db.count has gone through the
\* wrap and stands at 1
C14_Witness ==
    /\ NumConns >= 2
    /\ Len(selLog) = 4
    /\ selLog[1].val = AddUint64(AgedCount, 1)
    /\ count = U64(1)

\* C15 as stated: a read is issued to exactly one target, the one the
\* selector picked; when it fails the caller gets that target's error and no
\* other target is tried; and the slave that failed stays in rotation: it is
\* the one selected N-1 reads after the read that failed.
C15_FailedReadStaysInRotation ==
    /\ \A k \in DOMAIN selLog :
           /\ Len(selLog[k].sent) <= 1
           /\ \A m \in DOMAIN selLog[k].sent :
                  selLog[k].sent[m] = selLog[k].idx
    /\ lastRead.err # Nil
           => /\ lastRead.err = selLog[lastRead.k].idx
              /\ selLog[lastRead.k].sent = <<selLog[lastRead.k].idx>>
              /\ (selLog[lastRead.k].n >= 2
                    /\ lastRead.k + selLog[lastRead.k].n - 1 \in DOMAIN selLog)
                     => selLog[lastRead.k + selLog[lastRead.k].n - 1].idx
                           = selLog[lastRead.k].idx

\* C16: the statement sequence of every group has one slot per target of the
\* handle from the moment Prepare builds it, for as long as the group exists;
\* a statement in slot i was prepared on target i; a group that a caller
\* holds has a statement in every slot; and the index that a read through a
\* group obtains from the selector, computed from the number of targets, is
\* an index of the group's statement sequence.
C16_GroupHoldsOneStatementPerTarget ==
    /\ \A g \in DOMAIN groups :
           /\ DOMAIN groups[g].stmts = DOMAIN conns
           /\ NumStmts(g) = NumConns
           /\ \A i \in DOMAIN groups[g].stmts :
                  /\ groups[g].stmts[i].st # "nil" => groups[g].stmts[i].on = i
                  /\ groups[g].held => groups[g].stmts[i].st # "nil"
    /\ \A t \in Callers :
           (call[t].pc = "selected" /\ call[t].via # "db")
              => /\ call[t].g \in DOMAIN groups
                 /\ groups[call[t].g].held
                 /\ call[t].idx \in DOMAIN groups[call[t].g].stmts
    /\ \A k \in DOMAIN selLog :
           selLog[k].via # "db"
              => \A m \in DOMAIN selLog[k].sent :
                    selLog[k].sent[m] \in DOMAIN groups[selLog[k].g].stmts

\* a read through a group that Prepare returned on a handle with slaves has
\* selected the statement of a slave
C16_Witness ==
    \E t \in Callers :
        /\ call[t].pc = "selected"
        /\ call[t].via \in {"stmt", "named"}
        /\ call[t].idx >= 1
        /\ \E m \in Callers : ret[m].op \in {"prepare", "namedprepare"}
        /\ groups[call[t].g].stmts[call[t].idx].on = call[t].idx

\* a step that keeps the targets of a handle that Open has returned, or
\* closes some of them within the handle's Close
TargetsKept ==
    handle \in {"open", "closed"}
       => /\ DOMAIN conns' = DOMAIN conns
          /\ \A i \in DOMAIN conns :
                 /\ conns'[i].dsn = conns[i].dsn
                 /\ conns'[i].st # conns[i].st
                        => /\ conns[i].st = "open"
                           /\ conns'[i].st = "closed"
                           /\ \E m \in Callers :
                                 /\ fan[m].op = "close"
                                 /\ workers[m][i].pc = "run"
                                 /\ workers'[m][i].pc = "send"

\* C17: once Open has returned, no step changes the number of targets of the
\* handle or the connection at any index, and the only change of state a
\* target undergoes is from open to closed, in a step of the handle's Close:
\* reads, writes, Ping, Prepare, the pool setters and Close of a group close
\* no target, and nothing reopens one.
C17_TargetsFixedAndClosedOnlyByClose == [][TargetsKept]_vars

\* a handle with slaves has been through a pool setter and Close: every
\* target is closed and is the connection Open made for its index
C17_Witness ==
    /\ handle = "closed"
    /\ NumConns >= 2
    /\ \E m \in Callers : ret[m].op = "close"
    /\ \A i \in DOMAIN conns :
           /\ conns[i].st = "closed"
           /\ conns[i].dsn = Split(source, ";")[i + 1]
           /\ pool[i] # ""

\* a step that changes db.count is a selector call: it adds one entry to the
\* log of selector calls
CounterKept == count' # count => Len(selLog') = Len(selLog) + 1

\* C18: no step other than the selector call of a read changes db.count:
\* Exec, NamedExec, Begin, BeginTx, Master, Driver, Ping, Close, Prepare,
\* NamedPrepare, the pool setters and a group's Exec and Close leave it as
\* it is, so that the next read continues the rotation where the last read
\* left it.
C18_OnlyReadsMoveTheCounter == [][CounterKept]_vars

\* on a handle with slaves a read was made, a write reached the master, the
\* management calls of the run were made, and db.count stands at 1
C18_Witness ==
    /\ handle = "open"
    /\ NumConns >= 2
    /\ Len(selLog) = 1
    /\ selLog[1].sent # <<>>
    /\ conns[Master].w
    /\ ops = 0
    /\ \A m \in Callers : fan[m].pc = "idle"
    /\ count = U64(1)

\* while no caller holds a handle no connection has been closed
NoneClosedWithoutHandle ==
    handle \in {"none", "nil"}
        => \A i \in DOMAIN conns : conns[i].st \in {"nil", "open"}

\* the return of an Open in which a connect failed hands out no handle and
\* leaves every connection as the connects left it: those whose connect
\* succeeded are open
FailedOpenKeepsConns ==
    \A m \in Callers :
        (Done(m, "open") /\ fan[m].err # Nil)
            => /\ handle' = "nil"
               /\ conns' = conns
               /\ \A i \in DOMAIN conns :
                      workers[m][i].res = Nil
                          => (conns'[i].st = "open" /\ ~conns'[i].failed)

\* C19: when a connect fails, Open returns the error and no handle, and it
\* closes none of the connections made for the other targets: they are as
\* open after Open has returned as the connects left them.
C19_FailedOpenLeaksConnections ==
    [][FailedOpenKeepsConns]_vars /\ []NoneClosedWithoutHandle

\* Open has returned an error and no handle; two connects succeeded and
\* their connections are still open
C19_Witness ==
    /\ ret[Main].op = "open"
    /\ ret[Main].err # Nil
    /\ handle = "nil"
    /\ Cardinality({i \in DOMAIN conns :
                       conns[i].st = "open" /\ ~conns[i].failed}) = 2
    /\ conns[ret[Main].err].failed

\* a goroutine that has its result finds room on the channel
SendNeverBlocks ==
    \A m \in Callers : \A i \in DOMAIN workers[m] :
        workers[m][i].pc = "send" => Len(errors[m]) < Cap(m)

\* scan has returned: every goroutine has run fn once and sent its one
\* result, no two at the same rank, and the n results have been received
NoWorkerLeft ==
    \A m \in Callers :
        fan[m].pc = "returned"
            => /\ \A i \in DOMAIN workers[m] :
                      /\ workers[m][i].pc = "done"
                      /\ workers[m][i].runs = 1
                      /\ workers[m][i].at \in 1..fan[m].n
               /\ \A i, j \in DOMAIN workers[m] :
                      workers[m][i].at = workers[m][j].at => i = j
               /\ Cardinality(DOMAIN workers[m]) = fan[m].n
               /\ fan[m].i = fan[m].n
               /\ errors[m] = <<>>

\* C20: when every fn(i) terminates and the goroutines are scheduled fairly,
\* scan(n, fn) returns, and when it has returned no goroutine is left
\* blocked: each of the n goroutines has sent exactly one result on the
\* channel of capacity n, no send ever had to wait for room, and all n results
\* have been received.
C20_ScanReturnsLeavingNoWorker ==
    /\ <>(fan[Main].pc = "returned")
    /\ []SendNeverBlocks
    /\ []NoWorkerLeft

\* a scan over MaxTargets indices has returned: every goroutine is done and
\* the channel is empty
C20_Witness ==
    /\ fan[Main].pc = "returned"
    /\ fan[Main].n = MaxTargets
    /\ fan[Main].i = fan[Main].n
    /\ \A i \in DOMAIN workers[Main] : workers[Main][i].pc = "done"
    /\ errors[Main] = <<>>

====
